---- MODULE Spec2Model ----
(***************************************************************************)
(* AuraDent bot (src/bot.py): the message parser, the Excel record store   *)
(* and the update handlers, as a state machine.                            *)
(*                                                                         *)
(* Text is a sequence of one-character strings, so that strip, split,      *)
(* lower, replace and json.loads are computed character by character.      *)
(***************************************************************************)
EXTENDS Naturals, Sequences, FiniteSets, TLC

VARIABLES
    \* ---- the running bot (specification Spec) ----
    running,     \* the module has been imported: consultation_manager is constructed
    admin,       \* ADMIN_CHAT_ID, read from the environment at import
    file,        \* the workbook at EXCEL_FILE_PATH: absent, or its rows
    filePrev,    \* the workbook as it was when this update's handler started
    pc,          \* where the handler of the update being processed stands
    upd,         \* the update being processed
    data,        \* the handler's consultation_data
    outbox,      \* the send calls made for this update, in order
    errlog,      \* logger.error calls made for this update, in order
    escaped,     \* an exception left the handler of this update
    appended,    \* add_consultation returned True for this update
    fresh,       \* the workbook was created by this program (it did not pre-exist)
    nAdded,      \* add_consultation calls that returned True since the file was created
    ensured,     \* calls of _ensure_excel_file_exists so far
    parked,      \* a second handler, suspended at an await (specification ConcSpec)
    \* ---- the parser alone (specification ParseSpec) ----
    lines,       \* the palette lines (or JSON pairs) the text was composed from
    text,        \* the message text
    result       \* what parse_consultation_message returned for text

botvars == <<running, admin, file, filePrev, pc, upd, data, outbox, errlog, escaped,
             appended, fresh, nAdded, ensured, parked>>
parsevars == <<lines, text, result>>
vars == <<botvars, parsevars, parked>>

\* ------------------------------------------------------------------ bounds
MaxLines == 4      \* lines of a composed line-oriented message
MaxPairs == 2      \* members of a composed JSON object
MaxRows == 2       \* successful appends in one run of the model
MaxEnsure == 2     \* constructions of the manager (process starts)

\* ------------------------------------------------------------------ text
NL == "\n"
QUOTE == "\""

Min(S) == CHOOSE m \in S : \A n \in S : m <= n
Max(S) == CHOOSE m \in S : \A n \in S : m >= n

\* str.strip() and json's scanner skip these (the whitespace of the alphabet)
Whitespace == {" ", NL}

UpperCase == <<"A", "B", "C", "D", "E", "F", "G", "H", "I", "J", "K", "L", "M",
               "N", "O", "P", "Q", "R", "S", "T", "U", "V", "W", "X", "Y", "Z">>
LowerCase == <<"a", "b", "c", "d", "e", "f", "g", "h", "i", "j", "k", "l", "m",
               "n", "o", "p", "q", "r", "s", "t", "u", "v", "w", "x", "y", "z">>
Digits == {"0", "1", "2", "3", "4", "5", "6", "7", "8", "9"}

\* str.strip()
strip(s) ==
    LET keep == {i \in 1..Len(s) : s[i] \notin Whitespace}
    IN  IF keep = {} THEN <<>> ELSE SubSeq(s, Min(keep), Max(keep))

\* str.lower()
lower(s) ==
    [i \in 1..Len(s) |->
        IF \E j \in 1..26 : UpperCase[j] = s[i]
        THEN LowerCase[CHOOSE j \in 1..26 : UpperCase[j] = s[i]]
        ELSE s[i]]

\* str.replace(' ', '_')
replace(s) == [i \in 1..Len(s) |-> IF s[i] = " " THEN "_" ELSE s[i]]

\* str.split('\n')
RECURSIVE split(_)
split(s) ==
    LET at == {i \in 1..Len(s) : s[i] = NL}
    IN  IF at = {} THEN <<s>>
        ELSE <<SubSeq(s, 1, Min(at) - 1)>> \o split(SubSeq(s, Min(at) + 1, Len(s)))

\* the split taken at the last colon instead (line.rsplit(':', 1))
SplitAtLastColon(line) ==
    LET at == Max({i \in 1..Len(line) : line[i] = ":"})
    IN  <<SubSeq(line, 1, at - 1), SubSeq(line, at + 1, Len(line))>>
\* line.split(':', 1), for a line that holds a colon
split_colon(line) ==
    LET at == Min({i \in 1..Len(line) : line[i] = ":"})
    IN  <<SubSeq(line, 1, at - 1), SubSeq(line, at + 1, Len(line))>>

\* ------------------------------------------------------------------ records
\* A dict is a function from keys (text) to values; a value keeps its Python
\* type: "str", "num" (int) or "obj" (a nested dict, kept as its source text).
Str(s) == [kind |-> "str", text |-> s]
Num(s) == [kind |-> "num", text |-> s]
Obj(s) == [kind |-> "obj", text |-> s]

EmptyDict == [k \in {} |-> Str(<<>>)]
Put(d, k, v) == [x \in (DOMAIN d) \cup {k} |-> IF x = k THEN v ELSE d[x]]
\* dict.get(k, default)
Get(d, k, default) == IF k \in DOMAIN d THEN d[k] ELSE default

\* Optional[Dict]: None, or a dict
None == [some |-> FALSE, dict |-> EmptyDict]
Some(d) == [some |-> TRUE, dict |-> d]

\* ------------------------------------------------------------------ json.loads
\* The decoder, for the JSON the model composes: objects whose values are
\* strings, non-negative integers or objects. pos is the next unread index.
JsonFail == [ok |-> FALSE, val |-> Str(<<>>), pos |-> 0]

SkipWs(s, i) ==
    LET stop == {j \in i..Len(s) : s[j] \notin Whitespace}
    IN  IF stop = {} THEN Len(s) + 1 ELSE Min(stop)

\* s[i] is the opening quote; a raw newline inside a string is a decode error
ScanString(s, i) ==
    LET close == {j \in (i + 1)..Len(s) : s[j] = QUOTE}
    IN  IF close = {} THEN JsonFail
        ELSE LET j == Min(close)
                 body == SubSeq(s, i + 1, j - 1)
             IN  IF \E k \in 1..Len(body) : body[k] = NL THEN JsonFail
                 ELSE [ok |-> TRUE, val |-> Str(body), pos |-> j + 1]

\* s[i] is a digit; a leading zero ends the number
ScanNumber(s, i) ==
    LET stop == {j \in i..Len(s) : s[j] \notin Digits}
        end == IF s[i] = "0" THEN i + 1
               ELSE IF stop = {} THEN Len(s) + 1 ELSE Min(stop)
    IN  [ok |-> TRUE, val |-> Num(SubSeq(s, i, end - 1)), pos |-> end]

RECURSIVE ScanValue(_, _), ScanMembers(_, _, _)
\* s[i] is "{"
ScanObject(s, i) ==
    LET j == SkipWs(s, i + 1)
    IN  IF j > Len(s) THEN [ok |-> FALSE, dict |-> EmptyDict, pos |-> 0]
        ELSE IF s[j] = "}" THEN [ok |-> TRUE, dict |-> EmptyDict, pos |-> j + 1]
        ELSE ScanMembers(s, j, EmptyDict)

\* one "key": value member at i, then "," and the next member, or "}"
ScanMembers(s, i, acc) ==
    LET bad == [ok |-> FALSE, dict |-> EmptyDict, pos |-> 0]
    IN  IF i > Len(s) \/ s[i] # QUOTE THEN bad
        ELSE LET key == ScanString(s, i)
             IN  IF ~key.ok THEN bad
                 ELSE LET c == SkipWs(s, key.pos)
                      IN  IF c > Len(s) \/ s[c] # ":" THEN bad
                          ELSE LET v == ScanValue(s, SkipWs(s, c + 1))
                               IN  IF ~v.ok THEN bad
                                   ELSE LET e == SkipWs(s, v.pos)
                                            now == Put(acc, key.val.text, v.val)
                                        IN  IF e > Len(s) THEN bad
                                            ELSE IF s[e] = "}"
                                                 THEN [ok |-> TRUE, dict |-> now, pos |-> e + 1]
                                            ELSE IF s[e] = ","
                                                 THEN ScanMembers(s, SkipWs(s, e + 1), now)
                                            ELSE bad

ScanValue(s, i) ==
    IF i > Len(s) THEN JsonFail
    ELSE IF s[i] = QUOTE THEN ScanString(s, i)
    ELSE IF s[i] \in Digits THEN ScanNumber(s, i)
    ELSE IF s[i] = "{"
         THEN LET o == ScanObject(s, i)
              IN  IF o.ok THEN [ok |-> TRUE, val |-> Obj(SubSeq(s, i, o.pos - 1)), pos |-> o.pos]
                  ELSE JsonFail
    ELSE JsonFail

\* json.loads(s) for s whose first non-blank character is "{": the dict, or
\* a JSONDecodeError (ok = FALSE), also for data after the object
json_loads(s) ==
    LET o == ScanObject(s, SkipWs(s, 1))
    IN  IF o.ok /\ SkipWs(s, o.pos) > Len(s) THEN [ok |-> TRUE, dict |-> o.dict]
        ELSE [ok |-> FALSE, dict |-> EmptyDict]

\* ------------------------------------------------------------------ parser
K_name == <<"n", "a", "m", "e">>
K_email == <<"e", "m", "a", "i", "l">>
K_phone == <<"p", "h", "o", "n", "e">>
K_message == <<"m", "e", "s", "s", "a", "g", "e">>
K_date == <<"d", "a", "t", "e">>
K_age == <<"a", "g", "e">>
K_consultation_type == <<"c", "o", "n", "s", "u", "l", "t", "a", "t", "i", "o", "n", "_", "t", "y", "p", "e">>
K_chat_id == <<"c", "h", "a", "t", "_", "i", "d">>

\* the mapping without its default: a key outside the table maps to nothing
DropUnknownKey(key) ==
    IF key = <<"c", "o", "n", "s", "u", "l", "t", "a", "t", "i", "o", "n", " ", "t", "y", "p", "e">> THEN K_consultation_type
    ELSE IF key \in {K_name, K_email, K_phone, K_message, K_date, K_age} THEN key
    ELSE <<>>
\* key_mapping.get(key, key.replace(' ', '_'))
mapped_key(key) ==
    IF key = <<"c", "o", "n", "s", "u", "l", "t", "a", "t", "i", "o", "n", " ", "t", "y", "p", "e">> THEN K_consultation_type
    ELSE IF key \in {K_name, K_email, K_phone, K_message, K_date, K_age} THEN key
    ELSE replace(key)

\* start_index: skip a first line that is the request banner
start_index(ls) ==
    IF Len(ls) > 0 /\ lower(strip(ls[1])) \in {<<"n", "e", "w", " ", "c", "o", "n", "s", "u", "l", "t", "a", "t", "i", "o", "n", " ", "r", "e", "q", "u", "e", "s", "t">>, <<"c", "o", "n", "s", "u", "l", "t", "a", "t", "i", "o", "n", " ", "r", "e", "q", "u", "e", "s", "t">>}
    THEN 1 ELSE 0

\* the loop over lines[i], i in range(start_index, len(lines)); i is 1-based here
RECURSIVE parse_pairs(_, _, _)
parse_pairs(ls, i, d) ==
    IF i > Len(ls) THEN d
    ELSE LET line == strip(ls[i])
         IN  IF \E j \in 1..Len(line) : line[j] = ":"
             THEN LET kv == split_colon(line)
                      key == lower(strip(kv[1]))
                      value == strip(kv[2])
                  IN  IF value = <<>> THEN parse_pairs(ls, i + 1, d)
                      ELSE parse_pairs(ls, i + 1, Put(d, mapped_key(key), Str(value)))
             ELSE parse_pairs(ls, i + 1, d)

required_fields == {K_name, K_email, K_phone}

\* the check with any() in place of all()
AnyRequired(d) == \E f \in required_fields : f \in DOMAIN d
\* all(field in consultation_data for field in required_fields)
has_required(d) == \A f \in required_fields : f \in DOMAIN d

\* the line-oriented branch
parse_lines(message_text) ==
    LET ls == split(strip(message_text))
        d == parse_pairs(ls, start_index(ls) + 1, EmptyDict)
    IN  IF ~has_required(d) THEN None
        ELSE IF d # EmptyDict THEN Some(d) ELSE None

\* the JSON branch: json.loads, any exception caught and turned into None
parse_json(message_text) ==
    LET j == json_loads(message_text)
    IN  IF j.ok THEN Some(j.dict) ELSE None

starts_with_brace(message_text) ==
    LET s == strip(message_text) IN Len(s) > 0 /\ s[1] = "{"

\* the parser without its JSON branch
NeverJson(message_text) == parse_lines(message_text)
\* parse_consultation_message
parse_consultation_message(message_text) ==
    IF starts_with_brace(message_text) THEN parse_json(message_text)
    ELSE parse_lines(message_text)

\* ------------------------------------------------------------------ composed inputs
\* The lines a line-oriented message is composed from, and what each one says
\* (key and value as a reader of the help text means them; key <<>>: no pair).
Palette == <<
    <<"N", "a", "m", "e", ":", " ", "A">>,
    <<"E", "m", "a", "i", "l", ":", " ", "b", "@", "c", ".", "c", "o", "m">>,
    <<"P", "h", "o", "n", "e", ":", " ", "1", "2", "3">>,
    <<"M", "e", "s", "s", "a", "g", "e", ":", " ", "s", "e", "e", " ", "y", "o", "u", " ", "a", "t", " ", "1", "0", ":", "3", "0">>,
    <<"I", "n", "s", "u", "r", "a", "n", "c", "e", ":", " ", "Y", "e", "s">>,
    <<"N", "e", "w", " ", "C", "o", "n", "s", "u", "l", "t", "a", "t", "i", "o", "n", " ", "R", "e", "q", "u", "e", "s", "t">>,
    <<"E", "m", "a", "i", "l", ":">>,
    <<" ", " ", "P", "H", "O", "N", "E", " ", ":", " ", " ", "7", " ">>,
    <<"D", "e", "n", "t", "a", "l", " ", "P", "l", "a", "n", ":", " ", "B">> >>

Meaning == <<
    [key |-> K_name, value |-> <<"A">>],
    [key |-> K_email, value |-> <<"b", "@", "c", ".", "c", "o", "m">>],
    [key |-> K_phone, value |-> <<"1", "2", "3">>],
    [key |-> K_message, value |-> <<"s", "e", "e", " ", "y", "o", "u", " ", "a", "t", " ", "1", "0", ":", "3", "0">>],
    [key |-> <<"i", "n", "s", "u", "r", "a", "n", "c", "e">>, value |-> <<"Y", "e", "s">>],
    [key |-> <<>>, value |-> <<>>],
    [key |-> <<>>, value |-> <<>>],
    [key |-> K_phone, value |-> <<"7">>],
    [key |-> <<"d", "e", "n", "t", "a", "l", "_", "p", "l", "a", "n">>, value |-> <<"B">>] >>

\* The members a JSON message is composed from
Members == <<
    [k |-> <<"n", "a", "m", "e">>, v |-> Str(<<"A">>)],
    [k |-> <<"e", "m", "a", "i", "l">>, v |-> Str(<<"b", "@", "c">>)],
    [k |-> <<"p", "h", "o", "n", "e">>, v |-> Num(<<"1", "2", "3">>)],
    [k |-> <<"N", "a", "m", "e">>, v |-> Str(<<>>)],
    [k |-> <<"n", "a", "m", "e">>, v |-> Obj(<<"{", QUOTE, "x", QUOTE, ":", "1", "}">>)],
    [k |-> <<"n", "o", "t", "e">>, v |-> Str(<<"a", "t", " ", "1", ":", "2">>)] >>

Styles == {"compact", "spaced"}
Damages == {"none", "no_close", "trail_comma", "bare_value", "extra"}

EncodeValue(v) == IF v.kind = "str" THEN <<QUOTE>> \o v.text \o <<QUOTE>> ELSE v.text
EncodeMember(m, gap) == <<QUOTE>> \o m.k \o <<QUOTE, ":">> \o gap \o EncodeValue(m.v)
RECURSIVE EncodeMembers(_, _)
EncodeMembers(ms, gap) ==
    IF ms = <<>> THEN <<>>
    ELSE IF Len(ms) = 1 THEN EncodeMember(Members[ms[1]], gap)
    ELSE EncodeMember(Members[ms[1]], gap) \o <<",">> \o gap \o EncodeMembers(Tail(ms), gap)

\* the text a client sends for the members ms, as a serializer writes it
\* (style) and as a broken client damages it
EncodeJson(ms, style, damage) ==
    LET gap == IF style = "spaced" THEN <<" ">> ELSE <<>>
        pad == IF style = "spaced" THEN <<NL, " ">> ELSE <<>>
        body == EncodeMembers(ms, gap)
        inner == CASE damage = "trail_comma" -> body \o <<",">>
                   [] damage = "bare_value" ->
                        body \o (IF ms = <<>> THEN <<>> ELSE <<",">>) \o <<QUOTE, "k", QUOTE, ":", "Y", "e", "s">>
                   [] OTHER -> body
        close == IF damage = "no_close" THEN <<>> ELSE <<"}">>
        after == IF damage = "extra" THEN pad \o <<"N", "a", "m", "e", ":", " ", "A">> ELSE pad
    IN  pad \o <<"{">> \o gap \o inner \o close \o after

\* the dict the members ms denote (a later member replaces an earlier one)
RECURSIVE DictOf(_, _)
DictOf(ms, d) ==
    IF ms = <<>> THEN d
    ELSE DictOf(Tail(ms), Put(d, Members[ms[1]].k, Members[ms[1]].v))

\* the pairs the palette lines ls denote (a later line replaces an earlier one)
RECURSIVE PairsOf(_, _)
PairsOf(ls, d) ==
    IF ls = <<>> THEN d
    ELSE LET m == Meaning[ls[1]]
         IN  PairsOf(Tail(ls), IF m.key = <<>> THEN d ELSE Put(d, m.key, Str(m.value)))

Sequences(S, n) == UNION {[1..k -> S] : k \in 0..n}

NoComposition == [mode |-> "empty", items |-> <<>>, style |-> "compact", damage |-> "none"]
Unparsed == [done |-> FALSE, value |-> None]

ParseInit ==
    /\ lines = NoComposition
    /\ text = <<>>
    /\ result = Unparsed

\* one more line typed into the message
AddLine ==
    /\ lines.mode \in {"empty", "lines"}
    /\ ~result.done
    /\ Len(lines.items) < MaxLines
    /\ \E i \in 1..Len(Palette) :
        /\ lines' = [lines EXCEPT !.mode = "lines", !.items = Append(@, i)]
        /\ text' = IF lines.items = <<>> THEN Palette[i] ELSE text \o <<NL>> \o Palette[i]
    /\ UNCHANGED <<result, botvars>>

\* a JSON message written by a client
ComposeJson ==
    /\ lines.mode = "empty"
    /\ ~result.done
    /\ \E ms \in Sequences(1..Len(Members), MaxPairs), style \in Styles, damage \in Damages :
        /\ lines' = [mode |-> "json", items |-> ms, style |-> style, damage |-> damage]
        /\ text' = EncodeJson(ms, style, damage)
    /\ UNCHANGED <<result, botvars>>

\* parse_consultation_message(text)
Parse ==
    /\ ~result.done
    /\ result' = [done |-> TRUE, value |-> parse_consultation_message(text)]
    /\ UNCHANGED <<lines, text, botvars>>

ParseNext == AddLine \/ ComposeJson \/ Parse

\* ------------------------------------------------------------------ the record store
\* The workbook file: whether it exists, and the populated rows of its active
\* sheet (row index -> the row's 8 cells).
headers == << Str(<<"T", "i", "m", "e", "s", "t", "a", "m", "p">>), Str(<<"N", "a", "m", "e">>), Str(<<"P", "h", "o", "n", "e">>), Str(<<"E", "m", "a", "i", "l">>),
              Str(<<"A", "g", "e">>), Str(<<"C", "o", "n", "s", "u", "l", "t", "a", "t", "i", "o", "n", " ", "T", "y", "p", "e">>), Str(<<"M", "e", "s", "s", "a", "g", "e">>), Str(<<"C", "h", "a", "t", " ", "I", "D">>) >>

Absent == [exists |-> FALSE, rows |-> <<>>]
Workbook(rows) == [exists |-> TRUE, rows |-> rows]

\* sheet.max_row: the largest populated row index, 1 for an empty sheet
max_row(f) == IF DOMAIN f.rows = {} THEN 1 ELSE Max(DOMAIN f.rows)

\* the creation without the exists() test
AlwaysCreate(f) == Workbook(1 :> headers)
\* _ensure_excel_file_exists: create the workbook with the header row if the
\* path does not exist
ensure_excel_file_exists(f) ==
    IF ~f.exists THEN Workbook(1 :> headers) ELSE f

\* the row index without the + 1
OverwriteLastRow(f) == max_row(f)
\* next_row = sheet.max_row + 1
next_row(f) == max_row(f) + 1

\* row_data: the timestamp, then consultation_data.get(k, '') for the 7 columns
row_data(d, timestamp) ==
    << Str(timestamp),
       Get(d, K_name, Str(<<>>)), Get(d, K_phone, Str(<<>>)), Get(d, K_email, Str(<<>>)),
       Get(d, K_age, Str(<<>>)), Get(d, K_consultation_type, Str(<<>>)),
       Get(d, K_message, Str(<<>>)), Get(d, K_chat_id, Str(<<>>)) >>

\* add_consultation: io is what the file system does during the call ("ok",
\* "load_fail": load_workbook raises, "save_fail": workbook.save raises and
\* leaves the file as it was). A dict among the cell values makes sheet.cell
\* raise ValueError. Every exception is caught and gives False.
add_consultation(f, d, io, timestamp) ==
    IF io = "load_fail" \/ ~f.exists THEN [ok |-> FALSE, file |-> f]
    ELSE LET r == next_row(f)
             cells == row_data(d, timestamp)
         IN  IF \E c \in 1..Len(cells) : cells[c].kind = "obj" THEN [ok |-> FALSE, file |-> f]
             ELSE IF io = "save_fail" THEN [ok |-> FALSE, file |-> f]
             ELSE [ok |-> TRUE,
                   file |-> Workbook([x \in (DOMAIN f.rows) \cup {r} |->
                                         IF x = r THEN cells ELSE f.rows[x]])]

\* get_consultation_count: max_row - 1, or 0 when the workbook cannot be read
get_consultation_count(f, io) ==
    IF io # "ok" \/ ~f.exists THEN 0 ELSE max_row(f) - 1

\* ------------------------------------------------------------------ the bot
Unset == <<>>                      \* ADMIN_CHAT_ID not in the environment
Admins == {Unset, <<"1", "0", "0">>}
Chats == {<<"1", "0", "0">>, <<"2", "0", "0">>}       \* str(update.effective_chat.id), str(effective_user.id)
Timestamps == {<<"t">>}              \* datetime.now().strftime(...)

\* the text messages users send to the running bot
BotMessages == {
    <<"N", "a", "m", "e", ":", " ", "A", NL, "E", "m", "a", "i", "l", ":", " ", "b", "@", "c", ".", "c", "o", "m", NL, "P", "h", "o", "n", "e", ":", " ", "1", "2", "3">>,
    <<"N", "a", "m", "e", ":", " ", "A", NL, "P", "h", "o", "n", "e", ":", " ", "1", "2", "3">>,
    <<"{", QUOTE, "n", "a", "m", "e", QUOTE, ":", QUOTE, "A", QUOTE, ",", QUOTE, "e", "m", "a", "i", "l", QUOTE, ":", QUOTE, "b", "@", "c", QUOTE, ",", QUOTE, "p", "h", "o", "n", "e", QUOTE, ":", "1", "2", "3", "}">>,
    <<"{", QUOTE, "n", "a", "m", "e", QUOTE, ":", "{", QUOTE, "x", QUOTE, ":", "1", "}", ",", QUOTE, "e", "m", "a", "i", "l", QUOTE, ":", QUOTE, "b", "@", "c", QUOTE, ",", QUOTE, "p", "h", "o", "n", "e", QUOTE, ":", QUOTE, "1", QUOTE, "}">>,
    <<"{", QUOTE, "n", "o", "t", "e", QUOTE, ":", QUOTE, "h", "i", QUOTE, "}">>,
    <<"{", QUOTE, "n", "a", "m", "e", QUOTE, ":", QUOTE, "A", QUOTE>>,
    <<"{", "}">> }

\* parse_consultation_message on each of them (computed once)
Parsed == [m \in BotMessages |-> parse_consultation_message(m)]

\* a workbook an earlier run of the bot left behind
PriorRow == row_data(Put(Put(Put(EmptyDict, K_name, Str(<<"Z">>)), K_email, Str(<<"z", "@", "z">>)),
                         K_phone, Str(<<"9">>)), <<"t">>)
InitialFiles == {Absent, Workbook(1 :> headers), Workbook((1 :> headers) @@ (2 :> PriorRow))}

NoUpdate == [kind |-> "none", text |-> <<>>, chat_id |-> <<>>, user_id |-> <<>>]

Sent(what, to, ok, count) == [what |-> what, to |-> to, ok |-> ok, count |-> count]

\* a handler's own state: what one coroutine of a handler holds
NoContext == [pc |-> "idle", upd |-> NoUpdate, data |-> EmptyDict, outbox |-> <<>>,
              errlog |-> <<>>, escaped |-> FALSE, appended |-> FALSE, filePrev |-> Absent]

BotIdle ==
    /\ pc = "idle" /\ upd = NoUpdate /\ data = EmptyDict
    /\ outbox = <<>> /\ errlog = <<>> /\ escaped = FALSE /\ appended = FALSE

BotInit ==
    /\ running = FALSE
    /\ admin \in Admins
    /\ file \in InitialFiles
    /\ filePrev = file
    /\ BotIdle
    /\ fresh = FALSE /\ nAdded = 0 /\ ensured = 0
    /\ parked = NoContext

\* the process starts: importing the module constructs consultation_manager,
\* which calls _ensure_excel_file_exists
Startup ==
    /\ ~running
    /\ ensured < MaxEnsure
    /\ running' = TRUE
    /\ file' = ensure_excel_file_exists(file)
    /\ filePrev' = file'
    /\ ensured' = ensured + 1
    /\ fresh' = (fresh \/ ~file.exists)
    /\ UNCHANGED <<admin, pc, upd, data, outbox, errlog, escaped, appended, nAdded, parsevars, parked>>

\* the process stops, whatever its handler was doing
Shutdown ==
    /\ running
    /\ running' = FALSE
    /\ pc' = "idle" /\ upd' = NoUpdate /\ data' = EmptyDict
    /\ outbox' = <<>> /\ errlog' = <<>> /\ escaped' = FALSE /\ appended' = FALSE
    /\ filePrev' = file
    /\ parked' = NoContext
    /\ UNCHANGED <<admin, file, fresh, nAdded, ensured, parsevars>>

\* the dispatch loop hands the next update to its handler once the previous
\* handler has returned (or raised)
CanDispatch == running /\ pc \in {"idle", "done"}

\* `if not consultation_data`: None and the empty dict are both falsy
falsy(parsed) == ~parsed.some \/ parsed.dict = EmptyDict

\* handle_consultation_message up to its first await: parse, add chat_id,
\* add_consultation, and the reply it then awaits
HandleTextFrom(messages, chats) ==
    /\ CanDispatch
    /\ nAdded < MaxRows
    /\ \E message_text \in messages, chat_id \in chats,
          io \in {"ok", "load_fail", "save_fail"}, timestamp \in Timestamps :
        LET parsed == Parsed[message_text]
            consultation_data == Put(parsed.dict, K_chat_id, Str(chat_id))
            added == add_consultation(file, consultation_data, io, timestamp)
        IN  /\ upd' = [kind |-> "text", text |-> message_text,
                       chat_id |-> chat_id, user_id |-> chat_id]
            /\ filePrev' = file
            /\ outbox' = <<>> /\ escaped' = FALSE
            /\ IF falsy(parsed)
               THEN /\ pc' = "await_help"
                    /\ data' = EmptyDict
                    /\ errlog' = <<>> /\ appended' = FALSE
                    /\ UNCHANGED <<file, nAdded>>
               ELSE /\ data' = consultation_data
                    /\ file' = added.file
                    /\ appended' = added.ok
                    /\ nAdded' = IF added.ok THEN nAdded + 1 ELSE nAdded
                    /\ errlog' = IF added.ok THEN <<>> ELSE <<"add">>
                    /\ pc' = IF added.ok THEN "await_confirm" ELSE "await_error"
    /\ UNCHANGED <<running, admin, fresh, ensured, parsevars, parked>>

HandleText == HandleTextFrom(BotMessages, Chats)

\* an awaited reply_text inside the handler's try block ends: sent, or it raised
\* and the outer `except Exception` logs and awaits the apology
Settle(what, ok, next) ==
    /\ outbox' = Append(outbox, Sent(what, upd.chat_id, ok, 0))
    /\ IF ok THEN pc' = next /\ errlog' = errlog
       ELSE pc' = "await_apology" /\ errlog' = Append(errlog, "handler")
    /\ UNCHANGED <<running, admin, file, filePrev, upd, data, escaped, appended,
                   fresh, nAdded, ensured, parsevars, parked>>

\* the format-help reply (line 385)
HelpSettles ==
    /\ running /\ pc = "await_help"
    /\ \E ok \in BOOLEAN : Settle("help", ok, "done")

\* `if ADMIN_CHAT_ID and ADMIN_CHAT_ID != chat_id`
notify_admin(adminId, chat_id) == adminId # Unset /\ adminId # chat_id

\* the confirmation reply (line 422), then the admin notification if configured
ConfirmSettles ==
    /\ running /\ pc = "await_confirm"
    /\ \E ok \in BOOLEAN :
        Settle("confirm", ok, IF notify_admin(admin, upd.chat_id) THEN "await_admin" ELSE "done")

\* the "try again later" reply (line 450)
ErrorSettles ==
    /\ running /\ pc = "await_error"
    /\ \E ok \in BOOLEAN : Settle("error", ok, "done")

\* the admin notification without its own try: a failure reaches the outer
\* except block
AdminRaisesToOuter ==
    /\ running /\ pc = "await_admin"
    /\ \E ok \in BOOLEAN :
        /\ outbox' = Append(outbox, Sent("admin", admin, ok, 0))
        /\ IF ok THEN pc' = "done" /\ errlog' = errlog
           ELSE pc' = "await_apology" /\ errlog' = Append(errlog, "handler")
    /\ UNCHANGED <<running, admin, file, filePrev, upd, data, escaped, appended,
                   fresh, nAdded, ensured, parsevars, parked>>
\* context.bot.send_message to the admin (line 441), in its own try: a failure
\* is logged and the handler returns
AdminSettles ==
    /\ running /\ pc = "await_admin"
    /\ \E ok \in BOOLEAN :
        /\ outbox' = Append(outbox, Sent("admin", admin, ok, 0))
        /\ errlog' = IF ok THEN errlog ELSE Append(errlog, "admin")
    /\ pc' = "done"
    /\ UNCHANGED <<running, admin, file, filePrev, upd, data, escaped, appended,
                   fresh, nAdded, ensured, parsevars, parked>>

\* the apology reply awaited inside the except block (line 456): nothing
\* catches its failure, which leaves the handler
ApologySettles ==
    /\ running /\ pc = "await_apology"
    /\ \E ok \in BOOLEAN :
        /\ outbox' = Append(outbox, Sent("apology", upd.chat_id, ok, 0))
        /\ escaped' = ~ok
    /\ pc' = "done"
    /\ UNCHANGED <<running, admin, file, filePrev, upd, data, errlog, appended,
                   fresh, nAdded, ensured, parsevars, parked>>

\* ------------------------------------------------------------------ commands
\* the command without its access check
NeverDenied(adminId, user_id, chat_id) == FALSE
\* `if ADMIN_CHAT_ID and user_id != ADMIN_CHAT_ID and chat_id != ADMIN_CHAT_ID`
access_denied(adminId, user_id, chat_id) ==
    adminId # Unset /\ user_id # adminId /\ chat_id # adminId

\* get_consultations up to its first await. io is what the file system does
\* while the file is counted and opened ("ok" or "fail").
GetConsultations ==
    /\ CanDispatch
    /\ \E chat_id \in Chats, user_id \in Chats, io \in {"ok", "fail"} :
        /\ upd' = [kind |-> "get_consultations", text |-> <<>>,
                   chat_id |-> chat_id, user_id |-> user_id]
        /\ IF access_denied(admin, user_id, chat_id)
           THEN /\ pc' = "await_denied" /\ outbox' = <<>> /\ errlog' = <<>>
           ELSE IF admin = Unset
           THEN /\ pc' = "await_setup" /\ outbox' = <<>> /\ errlog' = <<>>
           ELSE IF ~file.exists
           THEN /\ pc' = "await_nofile" /\ outbox' = <<>> /\ errlog' = <<>>
           ELSE IF io = "ok"
           \* count, open(excel_path, 'rb'), then await reply_document
           THEN /\ pc' = "await_document"
                /\ outbox' = <<Sent("document", chat_id, FALSE, get_consultation_count(file, io))>>
                /\ errlog' = <<>>
           \* the count is 0 (logged), open raises: the except block replies
           ELSE /\ pc' = "await_cmd_error" /\ outbox' = <<>>
                /\ errlog' = <<"count", "command">>
    /\ filePrev' = file
    /\ escaped' = FALSE /\ appended' = FALSE /\ data' = EmptyDict
    /\ UNCHANGED <<running, admin, file, fresh, nAdded, ensured, parsevars, parked>>

\* a reply_text outside any try block ends (lines 280, 290): a failure leaves
\* the handler
PlainReplySettles ==
    /\ running /\ pc \in {"await_denied", "await_setup"}
    /\ \E ok \in BOOLEAN :
        /\ outbox' = Append(outbox, Sent(IF pc = "await_denied" THEN "denied" ELSE "setup",
                                         upd.chat_id, ok, 0))
        /\ escaped' = ~ok
    /\ pc' = "done"
    /\ UNCHANGED <<running, admin, file, filePrev, upd, data, errlog, appended,
                   fresh, nAdded, ensured, parsevars, parked>>

\* reply_document ends (line 311): the file is sent, or the except block
\* logs and replies with the error text
DocumentSettles ==
    /\ running /\ pc = "await_document"
    /\ \E ok \in BOOLEAN :
        /\ outbox' = <<[outbox[1] EXCEPT !.ok = ok]>>
        /\ IF ok THEN pc' = "done" /\ errlog' = errlog
           ELSE pc' = "await_cmd_error" /\ errlog' = Append(errlog, "command")
    /\ UNCHANGED <<running, admin, file, filePrev, upd, data, escaped, appended,
                   fresh, nAdded, ensured, parsevars, parked>>

\* stats_command up to its await: the count, then the statistics reply
StatsCommand ==
    /\ CanDispatch
    /\ \E chat_id \in Chats, io \in {"ok", "fail"} :
        /\ upd' = [kind |-> "stats", text |-> <<>>, chat_id |-> chat_id, user_id |-> chat_id]
        /\ outbox' = <<Sent("stats", chat_id, FALSE, get_consultation_count(file, io))>>
        /\ errlog' = IF io = "ok" THEN <<>> ELSE <<"count">>
    /\ pc' = "await_stats"
    /\ filePrev' = file
    /\ escaped' = FALSE /\ appended' = FALSE /\ data' = EmptyDict
    /\ UNCHANGED <<running, admin, file, fresh, nAdded, ensured, parsevars, parked>>

\* the statistics reply ends (line 340), inside the try block
StatsSettles ==
    /\ running /\ pc = "await_stats"
    /\ \E ok \in BOOLEAN :
        /\ outbox' = <<[outbox[1] EXCEPT !.ok = ok]>>
        /\ IF ok THEN pc' = "done" /\ errlog' = errlog
           ELSE pc' = "await_cmd_error" /\ errlog' = Append(errlog, "command")
    /\ UNCHANGED <<running, admin, file, filePrev, upd, data, escaped, appended,
                   fresh, nAdded, ensured, parsevars, parked>>

\* a reply awaited inside a command's except block, or the "no file" reply
\* inside its try block (lines 302, 323, 344): a failure of the former leaves
\* the handler
CommandErrorSettles ==
    /\ running /\ pc \in {"await_cmd_error", "await_nofile"}
    /\ \E ok \in BOOLEAN :
        /\ outbox' = Append(outbox, Sent(IF pc = "await_nofile" THEN "nofile" ELSE "cmd_error",
                                         upd.chat_id, ok, 0))
        /\ IF pc = "await_nofile" /\ ~ok
           THEN pc' = "await_cmd_error" /\ escaped' = escaped
           ELSE pc' = "done" /\ escaped' = ~ok
    /\ UNCHANGED <<running, admin, file, filePrev, upd, data, errlog, appended,
                   fresh, nAdded, ensured, parsevars, parked>>

\* ------------------------------------------------------------------ specifications
Init == BotInit /\ ParseInit

Next ==
    \/ Startup \/ Shutdown
    \/ HandleText \/ HelpSettles \/ ConfirmSettles \/ AdminSettles
    \/ ErrorSettles \/ ApologySettles
    \/ GetConsultations \/ PlainReplySettles \/ DocumentSettles
    \/ StatsCommand \/ StatsSettles \/ CommandErrorSettles

Spec == Init /\ [][Next]_vars

\* ---- handlers of two updates in flight ----
\* Were updates dispatched concurrently, the event loop would leave a handler
\* only at an await (or when it has returned) and resume the other one there:
\* every pc of the model is such a point, and add_consultation, a plain def
\* called without await, lies inside one step.
Context == [pc |-> pc, upd |-> upd, data |-> data, outbox |-> outbox, errlog |-> errlog,
            escaped |-> escaped, appended |-> appended, filePrev |-> filePrev]

Switch ==
    /\ running
    /\ parked # Context
    /\ parked' = Context
    /\ pc' = parked.pc /\ upd' = parked.upd /\ data' = parked.data
    /\ outbox' = parked.outbox /\ errlog' = parked.errlog
    /\ escaped' = parked.escaped /\ appended' = parked.appended
    /\ filePrev' = parked.filePrev
    /\ UNCHANGED <<running, admin, file, fresh, nAdded, ensured, parsevars>>

\* the text messages of the interleaved handlers: two that are stored, one
\* that is refused and one that add_consultation fails on
ConcMessages == {
    <<"N", "a", "m", "e", ":", " ", "A", NL, "E", "m", "a", "i", "l", ":", " ", "b", "@", "c", ".", "c", "o", "m", NL, "P", "h", "o", "n", "e", ":", " ", "1", "2", "3">>,
    <<"{", QUOTE, "n", "a", "m", "e", QUOTE, ":", QUOTE, "A", QUOTE, ",", QUOTE, "e", "m", "a", "i", "l", QUOTE, ":", QUOTE, "b", "@", "c", QUOTE, ",", QUOTE, "p", "h", "o", "n", "e", QUOTE, ":", "1", "2", "3", "}">>,
    <<"N", "a", "m", "e", ":", " ", "A", NL, "P", "h", "o", "n", "e", ":", " ", "1", "2", "3">>,
    <<"{", QUOTE, "n", "a", "m", "e", QUOTE, ":", "{", QUOTE, "x", QUOTE, ":", "1", "}", ",", QUOTE, "e", "m", "a", "i", "l", QUOTE, ":", QUOTE, "b", "@", "c", QUOTE, ",", QUOTE, "p", "h", "o", "n", "e", QUOTE, ":", QUOTE, "1", QUOTE, "}">> }
ConcChats == {<<"2", "0", "0">>}

ConcHandleText == HandleTextFrom(ConcMessages, ConcChats)

ConcInit == Init /\ admin = <<"1", "0", "0">>

ConcNext ==
    \/ Startup \/ Shutdown
    \/ ConcHandleText \/ HelpSettles \/ ConfirmSettles \/ AdminSettles
    \/ ErrorSettles \/ ApologySettles
    \/ Switch

ConcSpec == ConcInit /\ [][ConcNext]_vars

\* the parser alone, on composed messages; the bot is not started
ParseOnlyInit == Init /\ admin = Unset /\ file = Absent
ParseSpec == ParseOnlyInit /\ [][ParseNext]_vars

\* ------------------------------------------------------------------ parser claims
LineParsed == result.done /\ lines.mode = "lines"
JsonParsed == result.done /\ lines.mode = "json"

\* C2: a line-oriented message yields a record exactly when its pairs hold
\* name, email and phone, each with a non-empty value; `Name: A`, `Phone: 123`
\* yields no result and `Name: A`, `Email: b@c.com`, `Phone: 123` yields exactly
\* {name: A, email: b@c.com, phone: 123}.
C2_RequiredFields ==
    LineParsed =>
        /\ ~starts_with_brace(text)
        /\ result.value.some <=>
               \A f \in required_fields :
                   \E i \in 1..Len(lines.items) :
                       Meaning[lines.items[i]].key = f /\ Meaning[lines.items[i]].value # <<>>
        /\ result.value.some =>
               \A f \in required_fields :
                   f \in DOMAIN result.value.dict /\ result.value.dict[f].text # <<>>
        /\ lines.items = <<1, 3>> => result.value = None
        /\ lines.items = <<1, 2, 3>> =>
               result.value = Some([k \in {K_name, K_email, K_phone} |->
                                       IF k = K_name THEN Str(<<"A">>)
                                       ELSE IF k = K_email THEN Str(<<"b", "@", "c", ".", "c", "o", "m">>)
                                       ELSE Str(<<"1", "2", "3">>)])

C2_Witness == LineParsed /\ lines.items = <<1, 2, 3>> /\ result.value.some

\* C3: a message whose trimmed text starts with "{" yields the decoded object
\* itself when it is a valid JSON object (keys and values as written, no
\* normalization, no required fields), and no result when decoding fails.
C3_JsonBranch ==
    JsonParsed =>
        /\ starts_with_brace(text)
        /\ lines.damage = "none" => result.value = Some(DictOf(lines.items, EmptyDict))
        /\ lines.damage # "none" => result.value = None

C3_Witness ==
    /\ JsonParsed /\ lines.damage = "none" /\ lines.items = <<4, 6>>
    /\ result.value.some
    /\ DOMAIN result.value.dict = {<<"N", "a", "m", "e">>, <<"n", "o", "t", "e">>}

\* C9: a line is split on its first colon only: `Message: see you at 10:30`
\* gives message = `see you at 10:30`, and no key holds a colon.
C9_FirstColon ==
    (LineParsed /\ result.value.some) =>
        /\ \A k \in DOMAIN result.value.dict : \A j \in 1..Len(k) : k[j] # ":"
        /\ \A k \in DOMAIN PairsOf(lines.items, EmptyDict) :
               (\E j \in 1..Len(PairsOf(lines.items, EmptyDict)[k].text) :
                    PairsOf(lines.items, EmptyDict)[k].text[j] = ":")
               => /\ k \in DOMAIN result.value.dict
                  /\ result.value.dict[k] = PairsOf(lines.items, EmptyDict)[k]

C9_Witness ==
    /\ LineParsed /\ result.value.some
    /\ K_message \in DOMAIN result.value.dict
    /\ result.value.dict[K_message] = Str(<<"s", "e", "e", " ", "y", "o", "u", " ", "a", "t", " ", "1", "0", ":", "3", "0">>)

\* C10: when the required fields are present, a line whose key is outside the
\* synonym table and whose value is non-empty is kept under the normalized key
\* (trimmed, lowercased, spaces to underscores): `Insurance: Yes` yields
\* insurance = `Yes`.
SynonymKeys == {K_name, K_email, K_phone, K_message, K_date, K_age, <<"c", "o", "n", "s", "u", "l", "t", "a", "t", "i", "o", "n", " ", "t", "y", "p", "e">>}
C10_UnknownKeysKept ==
    (LineParsed /\ result.value.some) =>
        \A i \in 1..Len(lines.items) :
            LET m == Meaning[lines.items[i]]
            IN  (m.key # <<>> /\ m.key \notin SynonymKeys /\ m.key # K_consultation_type) =>
                    /\ m.key \in DOMAIN result.value.dict
                    /\ result.value.dict[m.key] = PairsOf(lines.items, EmptyDict)[m.key]

C10_Witness ==
    /\ LineParsed /\ result.value.some
    /\ <<"i", "n", "s", "u", "r", "a", "n", "c", "e">> \in DOMAIN result.value.dict
    /\ result.value.dict[<<"i", "n", "s", "u", "r", "a", "n", "c", "e">>] = Str(<<"Y", "e", "s">>)

\* ------------------------------------------------------------------ bot claims
Range(s) == {s[i] : i \in 1..Len(s)}
Whats == {outbox[i].what : i \in 1..Len(outbox)}

\* the data rows of the sheet: the populated rows below the header row
DataRows(f) == Cardinality((DOMAIN f.rows) \ {1})

\* C1: from a freshly created workbook, after N successful add_consultation
\* calls get_consultation_count returns N (the workbook being readable), and
\* every successful add_consultation raises the count by exactly one.
C1_CountEqualsAppends ==
    /\ [](fresh => get_consultation_count(file, "ok") = nAdded)
    /\ [][nAdded' = nAdded + 1 =>
            get_consultation_count(file', "ok") = get_consultation_count(file, "ok") + 1]_vars

C1_Witness ==
    fresh /\ nAdded = 2 /\ appended /\ get_consultation_count(file, "ok") = 2

\* C4: when add_consultation fails, no row is added, the handler sends the
\* "try again later" reply, no confirmation and no admin notification, and no
\* exception leaves the handler.
C4_AddFailureHandled ==
    (upd.kind = "text" /\ "add" \in Range(errlog)) =>
        /\ ~appended /\ file = filePrev
        /\ Whats \cap {"confirm", "admin"} = {}
        /\ pc = "done" => "error" \in Whats
        /\ ~escaped

\* C5: the admin notification is attempted only after a successful append and
\* a delivered confirmation, only to a configured admin other than the sender;
\* when it fails the failure is logged, the sender gets no further reply, the
\* row stays in the workbook and the handler returns normally.
C5_ConfirmBeforeAdmin ==
    /\ pc = "await_admin" =>
        /\ appended /\ notify_admin(admin, upd.chat_id)
        /\ outbox = <<Sent("confirm", upd.chat_id, TRUE, 0)>>
    /\ \A i \in 1..Len(outbox) : outbox[i].what = "admin" =>
        /\ appended /\ admin # Unset /\ admin # upd.chat_id /\ outbox[i].to = admin
        /\ i = 2 /\ outbox[1] = Sent("confirm", upd.chat_id, TRUE, 0)
        /\ Len(outbox) = 2 /\ pc = "done" /\ ~escaped
        /\ errlog = (IF outbox[i].ok THEN <<>> ELSE <<"admin">>)
        /\ DataRows(file) = DataRows(filePrev) + 1
        /\ \E t \in Timestamps : file.rows[max_row(file)] = row_data(data, t)

C5_Witness ==
    /\ pc = "done" /\ Len(outbox) = 2
    /\ outbox[2].what = "admin" /\ ~outbox[2].ok
    /\ errlog = <<"admin">>

\* C6: no exception ever leaves handle_consultation_message, and a failure
\* inside it ends with the apology reply delivered to the sender.
C6_FailureBecomesApology ==
    upd.kind = "text" =>
        /\ ~escaped
        /\ (pc = "done" /\ "handler" \in Range(errlog)) =>
               \E i \in 1..Len(outbox) : outbox[i].what = "apology" /\ outbox[i].ok

\* C7: _ensure_excel_file_exists on an absent file, called once or twice,
\* leaves the header row of 8 columns and no data row; on an existing file it
\* changes nothing.
C7_EnsureIdempotent ==
    /\ []((fresh /\ nAdded = 0) =>
            /\ file = Workbook(1 :> headers)
            /\ Len(file.rows[1]) = 8 /\ DataRows(file) = 0)
    /\ [][(ensured' = ensured + 1 /\ file.exists) => file' = file]_vars

C7_Witness ==
    ensured = 2 /\ running /\ fresh /\ nAdded = 0 /\ file = Workbook(1 :> headers)

ParsedOfUpdate == Parsed[upd.text]
HasAllRequired == ParsedOfUpdate.some /\ has_required(ParsedOfUpdate.dict)

\* C11: for a message in either format, a row is appended only if the parsed
\* record holds name, email and phone; otherwise the workbook is left
\* unchanged and the sender is sent the format-help reply.
C11_RowsNeedRequiredFields ==
    upd.kind = "text" =>
        /\ appended => HasAllRequired
        /\ ~HasAllRequired =>
              /\ file = filePrev
              /\ pc = "await_help" \/ "help" \in Whats

\* C12: the workbook is append-only, also with the handlers of two updates
\* interleaved at their awaits: a step never removes or changes the header
\* row or a row written before, never lowers the row count, and a successful
\* add_consultation writes exactly one row, at an index not populated before.
C12_AppendOnly ==
    [][file.exists =>
        /\ file'.exists
        /\ \A r \in DOMAIN file.rows :
               r \in DOMAIN file'.rows /\ file'.rows[r] = file.rows[r]
        /\ DataRows(file') >= DataRows(file)
        /\ nAdded' = nAdded + 1 =>
               \E r \in DOMAIN file'.rows :
                   /\ r \notin DOMAIN file.rows
                   /\ DOMAIN file'.rows = (DOMAIN file.rows) \cup {r}
        /\ nAdded' = nAdded => file' = file]_vars

C12_Witness ==
    /\ pc = "await_confirm" /\ appended
    /\ parked.pc = "await_confirm" /\ parked.appended
    /\ nAdded = 2 /\ DataRows(file) = DataRows(parked.filePrev) + 2
====
